---- MODULE Spec2Model ----
(***************************************************************************)
(* The black box (tamper-evident audit log) of the mission-control         *)
(* platform: canonical serialization and RSA signatures (src/crypto.py),   *)
(* the recorder actor (src/black_box.py) and the append-only store         *)
(* (src/black_box_impl.py).                                                 *)
(*                                                                         *)
(* Python objects are records tagged with their type.  A str is a sequence *)
(* of one-character strings; bytes and file text are sequences of          *)
(* characters or tokens as well.  A call returns                           *)
(* [exc |-> "none", val |-> result] or raises: [exc |-> name, val |-> ..]. *)
(***************************************************************************)
EXTENDS Integers, Sequences, FiniteSets, TLC

VARIABLES
    public_key,   \* BlackBox.public_key of the current instance
    storage,      \* the backing file at storage_path: a sequence of lines
    events_q,     \* BaseBlackBox._events_q (shared multiprocessing queue)
    control_q,    \* BaseBlackBox._control_q
    quit,         \* BaseBlackBox._quit of the object in the supervisor's process
    child_quit,   \* BaseBlackBox._quit as seen by the started process (run)
    pc,           \* position of the recorder process
    alive,        \* a BlackBox instance has been constructed on the path
    origin,       \* history: for each line of storage, who appended it and from what
    last,         \* history: the last store/actor operation, its argument and outcome
    hist,         \* history: puts and constructions so far (counts), in-process calls,
                  \* the progress of a stop request that is being followed, and, where
                  \* the poll cycles are watched, the event channel at the start of the
                  \* current drain and the items handled since
    threads       \* for each thread of the constructing process: where it is in
                  \* _log_message_impl, and the locals of its current or last call

vars == <<public_key, storage, events_q, control_q, quit, child_quit, pc, alive,
          origin, last, hist, threads>>

-----------------------------------------------------------------------------
(* Bounds of the model *)

MaxEnq == 2        \* events put on the event channel
MaxCtl == 1        \* items put on the control channel
MaxCalls == 2      \* direct (in-process) calls of _log_event / _log_message_impl
MaxNew == 2        \* BlackBox instances constructed on the path (StoreSpec)
MaxThreads == 2    \* threads that call _log_message_impl on one instance
MaxQueue == 2      \* items waiting on the event channel at a time (LiveSpec)

-----------------------------------------------------------------------------
(* Results of calls *)

Ret(v) == [exc |-> "none", val |-> v]
Raise(e) == [exc |-> e, val |-> <<>>]
Raised(r) == r.exc # "none"

-----------------------------------------------------------------------------
(* Python values: [t |-> type, k |-> key under which the value sits in its     *)
(* container ("" when it sits in none), s |-> characters or tokens of a scalar, *)
(* c |-> children of a container or fields of an object, in insertion order]   *)

PyNone == [t |-> "NoneType", k |-> "", s |-> <<>>, c |-> <<>>]
PyInt(n) == [t |-> "int", k |-> "", s |-> <<ToString(n)>>, c |-> <<>>]
PyStr(chars) == [t |-> "str", k |-> "", s |-> chars, c |-> <<>>]
PyBytes(toks) == [t |-> "bytes", k |-> "", s |-> toks, c |-> <<>>]
PyList(elems) == [t |-> "list", k |-> "", s |-> <<>>, c |-> elems]
PyDict(items) == [t |-> "dict", k |-> "", s |-> <<>>, c |-> items]
PyTuple(elems) == [t |-> "tuple", k |-> "", s |-> <<>>, c |-> elems]
\* a set, its elements in the order in which this object iterates over them
PySet(elems) == [t |-> "set", k |-> "", s |-> <<>>, c |-> elems]
\* a reference back to an enclosing container (a = {}; a["self"] = a)
BackRef == [t |-> "backref", k |-> "", s |-> <<>>, c |-> <<>>]

\* value `val` as the item of a dict, or the attribute of an object, under `key`
Item(key, val) == [val EXCEPT !.k = key]
\* the value of an item or attribute
Value(item) == [item EXCEPT !.k = ""]
\* o.name
Attr(o, name) == Value(o.c[CHOOSE i \in 1..Len(o.c) : o.c[i].k = name])

TAB == "\t"

\* the characters, keys and pieces of JSON text that occur, in Python's str order
StrOrder ==
    <<TAB, " ", "\"", ")", ", ", "1", "2", "7", ": ", "S", "T", "[", "\\", "]",
      "__bytes__", "__class__", "__state__", "b64(", "destination",
      "extra_parameters", "id", "m", "n", "null", "operation", "parameters", "self",
      "signature", "source", "{", "}">>

Rank(s) == CHOOSE i \in 1..Len(StrOrder) : StrOrder[i] = s

-----------------------------------------------------------------------------
(* Event (src/event_types, as constructed in crypto.py) and signature texts *)

\* the attribute when no signature was given
NoSignature == PyNone
EmptySignature == PyStr(<<>>)
\* a text that is not decodable base64: "abc" (incorrect padding)
BadPadSignature == PyStr(<<"a", "b", "c">>)
\* base64.b64encode(sig).decode() of the RSA signature made with key `priv` over `data`
B64Signature(priv, data) == PyStr(<<"b64(", priv>> \o data \o <<")">>)

Event(source, destination, operation, parameters, extra_parameters, signature) ==
    [t |-> "Event", k |-> "", s |-> <<>>,
     c |-> << Item("source", PyStr(<<source>>)),
              Item("destination", PyStr(<<destination>>)),
              Item("operation", PyStr(<<operation>>)),
              Item("parameters", parameters),
              Item("extra_parameters", extra_parameters),
              Item("signature", signature) >>]

-----------------------------------------------------------------------------
(* serialize (src/crypto.py) *)

RECURSIVE Flatten(_)
Flatten(seqs) == IF seqs = <<>> THEN <<>> ELSE Head(seqs) \o Flatten(Tail(seqs))

\* items left in their insertion order
UnsortedItems(items) == items

\* sorted(o.items()): items ordered by key
RECURSIVE SortedItems(_)
SortedItems(items) ==
    IF items = <<>> THEN <<>>
    ELSE LET i == CHOOSE i \in 1..Len(items) :
                      \A j \in 1..Len(items) : Rank(items[i].k) <= Rank(items[j].k)
         IN <<items[i]>> \o
            SortedItems(SubSeq(items, 1, i - 1) \o SubSeq(items, i + 1, Len(items)))

\* the first exception among results rs, or "none"
FirstExc(rs) ==
    IF \E i \in 1..Len(rs) : Raised(rs[i])
    THEN rs[CHOOSE i \in 1..Len(rs) :
              Raised(rs[i]) /\ \A j \in 1..(i - 1) : ~Raised(rs[j])].exc
    ELSE "none"

\* a < b for two texts (Python's str order)
TextLess(a, b) ==
    \E i \in 1..Len(b) :
        /\ i <= Len(a) + 1
        /\ \A j \in 1..(i - 1) : a[j] = b[j]
        /\ (i = Len(a) + 1 \/ Rank(a[i]) < Rank(b[i]))

\* sorted(xs, key=...): the values of xs ordered by their keys, equal keys in the
\* order of xs
RECURSIVE SortedByKey(_)
SortedByKey(xs) ==
    IF xs = <<>> THEN <<>>
    ELSE LET i == CHOOSE i \in 1..Len(xs) :
                      /\ \A j \in 1..Len(xs) : ~TextLess(xs[j].key, xs[i].key)
                      /\ \A j \in 1..(i - 1) : TextLess(xs[i].key, xs[j].key)
         IN <<xs[i].val>> \o
            SortedByKey(SubSeq(xs, 1, i - 1) \o SubSeq(xs, i + 1, Len(xs)))

RECURSIVE JsonDumps(_)
RECURSIVE default_serializer(_)
default_serializer(o) ==
    CASE o.t \in {"int", "float", "str", "bool", "NoneType"} -> Ret(o)
      [] o.t = "bytes" ->
            Ret(PyDict(<< Item("__bytes__", PyStr(<<"b64(">> \o o.s \o <<")">>)) >>))
      [] o.t \in {"list", "tuple"} ->
            LET rs == [i \in 1..Len(o.c) |-> default_serializer(o.c[i])]
            IN  IF FirstExc(rs) # "none" THEN Raise(FirstExc(rs))
                ELSE Ret(PyList([i \in 1..Len(o.c) |-> rs[i].val]))
      [] o.t = "dict" ->
            LET items == SortedItems(o.c)
                rs == [i \in 1..Len(items) |-> default_serializer(Value(items[i]))]
            IN  IF FirstExc(rs) # "none" THEN Raise(FirstExc(rs))
                ELSE Ret(PyDict([i \in 1..Len(items) |-> Item(items[i].k, rs[i].val)]))
      \* sorted by json.dumps(default_serializer(x), sort_keys=True)
      [] o.t \in {"set", "frozenset"} ->
            LET rs == [i \in 1..Len(o.c) |-> default_serializer(o.c[i])]
            IN  IF FirstExc(rs) # "none" THEN Raise(FirstExc(rs))
                ELSE Ret(PyList(SortedByKey([i \in 1..Len(o.c) |->
                             [key |-> JsonDumps(rs[i].val), val |-> rs[i].val]])))
      \* a self-reference is descended into until the interpreter's stack is exhausted
      [] o.t = "backref" -> Raise("RecursionError")
      \* any other object: its __dict__, sorted, under its qualified class name
      [] OTHER ->
            LET items == SortedItems(o.c)
                rs == [i \in 1..Len(items) |-> default_serializer(Value(items[i]))]
            IN  IF FirstExc(rs) # "none" THEN Raise(FirstExc(rs))
                ELSE Ret(PyDict(<<
                       Item("__class__", PyStr(<<"src.event_types.", o.t>>)),
                       Item("__state__",
                            PyDict([i \in 1..Len(items) |-> Item(items[i].k, rs[i].val)])) >>))

\* json.dumps(x, sort_keys=True) of a JSON-serializable structure, as text
JsonDumps(x) ==
    CASE x.t = "int" -> x.s
      [] x.t = "NoneType" -> <<"null">>
      [] x.t = "str" ->
            <<"\"">> \o Flatten([i \in 1..Len(x.s) |->
                          IF x.s[i] = TAB THEN <<"\\", "t">> ELSE <<x.s[i]>>]) \o <<"\"">>
      [] x.t = "list" ->
            <<"[">> \o Flatten([i \in 1..Len(x.c) |->
                          (IF i > 1 THEN <<", ">> ELSE <<>>) \o JsonDumps(x.c[i])]) \o <<"]">>
      [] x.t = "dict" ->
            LET items == SortedItems(x.c)
            IN  <<"{">> \o Flatten([i \in 1..Len(items) |->
                          (IF i > 1 THEN <<", ">> ELSE <<>>) \o
                          <<"\"", items[i].k, "\"", ": ">> \o JsonDumps(Value(items[i]))])
                \o <<"}">>
      [] OTHER -> <<"?">>

serialize(obj) ==
    LET d == default_serializer(obj)
    IN  IF Raised(d) THEN d ELSE Ret(PyBytes(JsonDumps(d.val)))

-----------------------------------------------------------------------------
(* Signatures (src/crypto.py) *)

\* the private key whose signatures a public key PEM verifies
PrivateOf(pem) == IF pem = "pub1" THEN "priv1" ELSE "priv2"

\* a create_signature that signs no data when the object cannot be serialized
SignsDespiteFailure(obj, private_key_pem) ==
    LET serialized_data == serialize(obj)
    IN  Ret(B64Signature(private_key_pem,
                         IF Raised(serialized_data) THEN <<>> ELSE serialized_data.val.s))

\* create_signature: serialize(obj), signed and base64-encoded; a failure of
\* serialize escapes
create_signature(obj, private_key_pem) ==
    LET serialized_data == serialize(obj)
    IN  IF Raised(serialized_data) THEN serialized_data
        ELSE Ret(B64Signature(private_key_pem, serialized_data.val.s))

\* the text taken for the signature bytes, without decoding it
NoDecode(signature) ==
    IF signature.t # "str" THEN Raise("TypeError")
    ELSE Ret([signer |-> "", data |-> signature.s])

\* base64.b64decode(signature): the signature bytes, here the key that made them
\* and the data they sign (no key and the text itself for other bytes)
b64decode(signature) ==
    LET x == signature.s
    IN  CASE signature.t # "str" -> Raise("TypeError")
          [] Len(x) >= 3 /\ x[1] = "b64(" /\ x[Len(x)] = ")" ->
                Ret([signer |-> x[2], data |-> SubSeq(x, 3, Len(x) - 1)])
          [] Len(x) % 4 # 0 -> Raise("binascii.Error")      \* incorrect padding
          [] OTHER -> Ret([signer |-> "", data |-> x])

\* public_key.verify(sig, data, PKCS1v15, SHA256): TRUE, or InvalidSignature (FALSE)
RsaVerify(pem, sig, data) == sig.signer = PrivateOf(pem) /\ sig.data = data

\* serialization.load_pem_public_key(public_key_pem.encode())
load_pem_public_key(public_key_pem) ==
    CASE public_key_pem = "None" -> Raise("AttributeError")      \* None.encode()
      [] public_key_pem = "pub1" -> Ret(public_key_pem)
      [] OTHER -> Raise("ValueError")                            \* not a PEM

verify_signature(obj, signature, public_key_pem) ==
    IF Raised(load_pem_public_key(public_key_pem))
    THEN load_pem_public_key(public_key_pem)
    ELSE LET serialized_data == serialize(obj)
             raw == b64decode(signature)
         IN  IF Raised(serialized_data) THEN serialized_data
             ELSE IF Raised(raw) THEN raw
             ELSE Ret(RsaVerify(public_key_pem, raw.val, serialized_data.val.s))

\* the event itself, its signature field included
EventAsReceived(event) == event

\* Event(source=event.source, ..., extra_parameters=event.extra_parameters):
\* a new Event of the five fields, its signature left at the default
event_without_signature(event) ==
    [event EXCEPT !.c = [i \in 1..Len(event.c) |->
        IF event.c[i].k = "signature" THEN Item("signature", NoSignature)
        ELSE event.c[i]]]

verify_event_signature(event, public_key_pem) ==
    verify_signature(event_without_signature(event), Attr(event, "signature"),
                     public_key_pem)

-----
(* The store (src/black_box_impl.py) *)

\* a constructor that opens the file with 'a'
OpenWriteKeeps(file) == file

\* open(storage_path, 'w') ... f.write(""): the file's lines afterwards
OpenWrite(file) == <<>>

\* an append that opens the file with 'w'
OpenAppendTruncates(file, line) == <<line>>

\* open(storage_path, 'a') ... f.write(line + "\n"): the file's lines afterwards
OpenAppend(file, line) == Append(file, line)

\* a check that lets every key pass
KeyNeverMissing(key) == FALSE

\* `not self.public_key`
KeyNotSet(key) == key \in {"None", ""}

\* s.split(sep) for a one-character sep: the words, in order
RECURSIVE Split(_, _)
Split(s, sep) ==
    IF \E i \in 1..Len(s) : s[i] = sep
    THEN LET i == CHOOSE i \in 1..Len(s) : s[i] = sep /\ \A j \in 1..(i - 1) : s[j] # sep
         IN  <<SubSeq(s, 1, i - 1)>> \o Split(SubSeq(s, i + 1, Len(s)), sep)
    ELSE <<s>>

\* sep.join(words)
RECURSIVE Join(_, _)
Join(words, sep) ==
    IF words = <<>> THEN <<>>
    ELSE IF Len(words) = 1 THEN words[1]
    ELSE words[1] \o <<sep>> \o Join(Tail(words), sep)

\* message.split('\t')
SplitMessageOnTab(message) == Split(message, TAB)

\* message.split(' ')
SplitMessage(message) == Split(message, " ")

Digit(n) == ToString(n)

\* strftime("%Y-%m-%d %H:%M:%S", gmtime()) for `now` seconds after the epoch
Strftime(now) ==
    <<"1", "9", "7", "0", "-", "0", "1", "-", "0", "1", " ", "0", "0", ":">>
    \o <<Digit((now \div 60) \div 10), Digit((now \div 60) % 10), ":">>
    \o <<Digit((now % 60) \div 10), Digit((now % 60) % 10)>>

\* the dict log_entry_json, in insertion order
LogEntryJson(time, message, signature) ==
    << <<"time", time>>, <<"message", message>>, <<"signature", signature>> >>

\* json.dumps(d, ensure_ascii=False) of a dict of str values: one line of text,
\* kept as the object's members in the order they are written
JsonLine(members) == [kind |-> "json", members |-> members]

\* a line of plain text
TextLine(chars) == [kind |-> "text", members |-> << <<"", chars>> >>]

\* _log_message_impl, from the split to json.dumps: log_entry for a str message
LogEntry(message, now) ==
    LET words == SplitMessage(message.s)
        signature == words[1]
        msg == Join(Tail(words), " ")
        time == Strftime(now) \o <<" ", "U", "T", "C">>
    IN  JsonLine(LogEntryJson(time, msg, signature))

\* BlackBox._log_message_impl: the outcome and the file afterwards
log_message_impl(key, file, message, now) ==
    IF KeyNotSet(key)
    THEN [exc |-> "ValueError: Public key is not set", ret |-> "none", file |-> file]
    ELSE IF message.t # "str"
    THEN [exc |-> "AttributeError", ret |-> "none", file |-> file]
    ELSE [exc |-> "none", ret |-> "True",
          file |-> OpenAppend(file, LogEntry(message, now))]

\* a write that lands at the offset the file had when it was opened, over whatever
\* has been written there since
WriteAtOpenOffset(file, offset, line) ==
    IF offset < Len(file) THEN [file EXCEPT ![offset + 1] = line]
    ELSE Append(file, line)

\* the one write of a file object opened with 'a' (O_APPEND), issued when the
\* `with` block closes it: the line goes to the end the file has at that moment,
\* wherever its end was at open()
AppendWrite(file, offset, line) == OpenAppend(file, line)

\* serialize(log_entry) + "\n": bytes + str
ConcatNewline(data) ==
    IF data.t = "str" THEN Ret(PyStr(data.s \o <<"\n">>)) ELSE Raise("TypeError")

\* BlackBox._log_event: the outcome and the file afterwards
log_event(key, file, event) ==
    IF KeyNotSet(key)
    THEN [exc |-> "ValueError: Public key is not set", ret |-> "none", file |-> file]
    ELSE LET data == serialize(event)
             text == IF Raised(data) THEN data ELSE ConcatNewline(data.val)
         IN  IF Raised(text) THEN [exc |-> text.exc, ret |-> "none", file |-> file]
             ELSE [exc |-> "none", ret |-> "True",
                   file |-> OpenAppend(file, TextLine(text.val.s))]

-----------------------------------------------------------------------------
(* Inputs *)

ParamsId7 == PyDict(<< Item("id", PyInt(7)) >>)                  \* {"id": 7}
ParamsCyclic == PyDict(<< Item("self", BackRef) >>)              \* a = {}; a["self"] = a
MsgSpace == PyStr(<<"S", " ", "m">>)                         \* "S m"
MsgTwoSpaces == PyStr(<<"S", " ", "m", " ", "n">>)           \* "S m n"
MsgNoSpace == PyStr(<<"S">>)                                 \* "S"
MsgLeadingSpace == PyStr(<<" ", "m">>)                       \* " m"
MsgTab == PyStr(<<"S", TAB, "m">>)                           \* "S\tm"
MsgTabSpace == PyStr(<<"S", TAB, "m", " ", "n">>)            \* "S\tm n"
EmptyDict == PyDict(<<>>)

\* an honest producer: build the event, sign it, attach the signature
SignedEvent(operation, parameters, priv) ==
    LET e == Event("svc", "mgr", operation, parameters, EmptyDict, NoSignature)
        sig == create_signature(e, priv)
    IN  Event("svc", "mgr", operation, parameters, EmptyDict, sig.val)

UnsignedEvent(operation, parameters, signature) ==
    Event("svc", "mgr", operation, parameters, EmptyDict, signature)

ValidLogMessage == SignedEvent("log_message", MsgSpace, "priv1")
ValidLogEvent == SignedEvent("log_event", ParamsId7, "priv1")
ValidPing == SignedEvent("ping", MsgSpace, "priv1")

\* what producers put on the event channel
QueueItems ==
    { PyStr(<<"n">>),                                             \* not an Event
      UnsignedEvent("log_event", ParamsId7, NoSignature),
      UnsignedEvent("log_message", MsgSpace, EmptySignature),
      UnsignedEvent("log_message", MsgSpace, BadPadSignature),
      SignedEvent("log_message", MsgSpace, "priv2"),              \* another key
      ValidLogMessage, ValidLogEvent, ValidPing }

ControlEvent(operation) ==
    [t |-> "ControlEvent", k |-> "", s |-> <<>>,
     c |-> << Item("operation", PyStr(<<operation>>)) >>]

\* what is put on the control channel
ControlItems == { ControlEvent("stop"), ControlEvent("pause"), PyStr(<<"n">>) }

\* arguments of direct calls of _log_event
EventArgs ==
    { ValidLogEvent, UnsignedEvent("ping", ParamsId7, NoSignature), ParamsId7,
      UnsignedEvent("loop", ParamsCyclic, NoSignature) }

\* arguments of direct calls of _log_message_impl
MessageArgs ==
    { MsgSpace, MsgTwoSpaces, MsgNoSpace, MsgLeadingSpace, MsgTab, MsgTabSpace }

\* event `e` with its attribute `name` set to `val`
WithField(e, name, val) ==
    [e EXCEPT !.c = [i \in 1..Len(e.c) |->
        IF e.c[i].k = name THEN Item(name, val) ELSE e.c[i]]]

One == PyInt(1)
Two == PyInt(2)

\* payloads of events: mappings in two insertion orders, a list, a tuple and a set
\* (in two iteration orders) of the same elements, a byte blob and the mapping
\* that its serialization yields, a text, a self-referential mapping
Payloads ==
    { ParamsId7, EmptyDict, MsgSpace, ParamsCyclic,
      PyDict(<< Item("n", One), Item("id", PyInt(7)) >>),
      PyDict(<< Item("id", PyInt(7)), Item("n", One) >>),
      PyList(<<One, Two>>), PyTuple(<<One, Two>>),
      PySet(<<One, Two>>), PySet(<<Two, One>>),
      PyBytes(<<"x">>), PyDict(<< Item("__bytes__", PyStr(<<"b64(", "x", ")">>)) >>) }

\* events as a producer builds them, the signature not yet set
UnsignedEvents ==
    { Event("svc", "mgr", operation, parameters, EmptyDict, NoSignature) :
        operation \in {"log_event", "log_message"}, parameters \in Payloads }

PrivateKeys == { "priv1", "priv2" }

FiveFields == { "source", "destination", "operation", "parameters", "extra_parameters" }

\* values an attribute of an event may be changed to after signing
TamperValues(name) ==
    CASE name \in {"source", "destination"} -> { PyStr(<<"svc">>), PyStr(<<"mgr">>) }
      [] name = "operation" -> { PyStr(<<"log_event">>), PyStr(<<"log_message">>) }
      [] name \in {"parameters", "extra_parameters"} -> Payloads
      [] OTHER -> { NoSignature, EmptySignature, BadPadSignature }

\* arguments of direct calls of serialize: the payloads, containers nested in
\* containers, and an event
SerializeArgs ==
    Payloads \cup
    { PyDict(<< Item("n", PySet(<<Two, PyStr(<<"m">>), One>>)),
               Item("id", PyDict(<< Item("n", One), Item("id", PyNone) >>)) >>),
      PyList(<< PySet(<<PyNone, One>>), PyDict(<< Item("n", One), Item("m", Two) >>) >>),
      PySet(<< PyTuple(<<One, Two>>), PyTuple(<<One>>), PyStr(<<"m">>) >>),
      PyTuple(<< PyDict(<< Item("self", BackRef), Item("id", One) >>) >>),
      Event("svc", "mgr", "log_event",
            PyDict(<< Item("n", One), Item("id", PyInt(7)) >>),
            PyDict(<< Item("m", PySet(<<Two, One>>)) >>), NoSignature) }

\* what the file at storage_path may hold before a BlackBox is constructed on it
OldLine == TextLine(<<"O", "L", "D">>)
OldFiles == { <<>>, <<OldLine>> }

\* the public_key argument of BlackBox(...): a PEM, None (the default) or ""
Keys == { "pub1", "None", "" }

-----------------------------------------------------------------------------
(* The recorder actor (src/black_box.py) *)

\* a dispatch that treats every operation but 'log_event' as 'log_message'
DispatchElse(key, file, event, now) ==
    IF Attr(event, "operation") = PyStr(<<"log_event">>)
    THEN log_event(key, file, Attr(event, "parameters"))
    ELSE log_message_impl(key, file, Attr(event, "parameters"), now)

\* _check_events_q: the dispatch of a verified event by its operation
Dispatch(key, file, event, now) ==
    IF Attr(event, "operation") = PyStr(<<"log_event">>)
    THEN log_event(key, file, Attr(event, "parameters"))
    ELSE IF Attr(event, "operation") = PyStr(<<"log_message">>)
    THEN log_message_impl(key, file, Attr(event, "parameters"), now)
    ELSE [exc |-> "none", ret |-> "continue", file |-> file]

\* one iteration of the loop of _check_events_q on a dequeued item:
\* the exception that escapes (or "none") and the file afterwards
HandleEvent(key, file, event, now) ==
    IF event.t # "Event" THEN [exc |-> "none", ret |-> "continue", file |-> file]
    ELSE IF Attr(event, "signature") \in {PyNone, PyStr(<<>>)}     \* not event.signature
    THEN [exc |-> "none", ret |-> "continue", file |-> file]
    ELSE LET is_valid == verify_event_signature(event, key)
         IN  IF Raised(is_valid)
             THEN [exc |-> is_valid.exc, ret |-> "none", file |-> file]
             ELSE IF ~is_valid.val
             THEN [exc |-> "none", ret |-> "continue", file |-> file]
             ELSE Dispatch(key, file, event, now)

\* the history of an operation
Record(op, arg, r) ==
    [op |-> op, arg |-> arg, exc |-> r.exc, ret |-> r.ret, before |-> storage]

\* the provenance of the lines of a file that grew from storage to `file`
Grown(file, by, arg) ==
    IF file = storage THEN origin
    ELSE IF Len(file) = Len(storage) + 1 /\ SubSeq(file, 1, Len(storage)) = storage
    THEN Append(origin, [by |-> by, arg |-> arg])
    ELSE [i \in 1..Len(file) |-> [by |-> by, arg |-> arg]]

\* a test that takes every ControlEvent for a stop request
AnyControlEvent(request) == request.t = "ControlEvent"

\* _check_control_q: isinstance(request, ControlEvent) and request.operation == 'stop'
StopRequested(request) ==
    request.t = "ControlEvent" /\ Attr(request, "operation") = PyStr(<<"stop">>)

\* a thread that has not called _log_message_impl yet (after a call the thread is
\* outside again and the locals of that call are kept as history)
Outside == [at |-> "outside", message |-> PyNone, log_entry |-> TextLine(<<>>),
            offset |-> 0]

\* no thread is inside _log_message_impl
NoThreads == [t \in 1..MaxThreads |-> Outside]

\* the recorder has not finished: the environment acts on it
Running == pc \notin {"terminated", "crashed"}

\* BlackBox.__init__ on the path, with the given public key
Construct(key) ==
    /\ hist.new < MaxNew
    /\ public_key' = key
    /\ events_q' = <<>>
    /\ control_q' = <<>>
    /\ quit' = FALSE
    /\ child_quit' = FALSE
    /\ pc' = "idle"
    /\ alive' = TRUE
    /\ storage' = OpenWrite(storage)
    /\ origin' = <<>>
    /\ last' = [op |-> "__init__", arg |-> PyNone, exc |-> "none", ret |-> "none",
                before |-> storage]
    /\ hist' = [enq |-> 0, ctl |-> 0, calls |-> <<>>, new |-> hist.new + 1,
                since |-> "none", atstop |-> <<>>,
                watch |-> hist.watch, cycled |-> FALSE, atdrain |-> <<>>,
                handled |-> <<>>]
    /\ threads' = NoThreads

\* a producer puts an item on the event channel
Put(item) ==
    /\ alive
    /\ Running
    /\ hist.enq < MaxEnq
    /\ events_q' = Append(events_q, item)
    /\ hist' = [hist EXCEPT !.enq = @ + 1]
    /\ UNCHANGED <<public_key, storage, control_q, quit, child_quit, pc, alive, origin,
                   last, threads>>

\* a producer that never stops: it puts an item on the event channel whenever
\* fewer than MaxQueue items are waiting there
Produce(item) ==
    /\ alive
    /\ Running
    /\ Len(events_q) < MaxQueue
    /\ events_q' = Append(events_q, item)
    /\ UNCHANGED <<public_key, storage, control_q, quit, child_quit, pc, alive, origin, last,
                   hist, threads>>

\* the supervisor puts an item on the control channel
PutControl(item) ==
    /\ alive
    /\ Running
    /\ hist.ctl < MaxCtl
    /\ control_q' = Append(control_q, item)
    /\ hist' = [hist EXCEPT !.ctl = @ + 1]
    /\ UNCHANGED <<public_key, storage, events_q, quit, child_quit, pc, alive, origin,
                   last, threads>>

\* the supervisor puts ControlEvent('stop') on the control channel of an actor that
\* has been started and has not finished; this request is the one followed:
\* the event channel at that moment is kept, and the poll cycles are told apart
\* from then on ("enqueued", first cycle started after it "cycle1", that cycle "over")
RequestStop ==
    /\ alive
    /\ pc \in {"top", "drain", "control"}
    /\ hist.since = "none"
    /\ control_q' = Append(control_q, ControlEvent("stop"))
    /\ hist' = [hist EXCEPT !.since = "enqueued", !.atstop = events_q]
    /\ UNCHANGED <<public_key, storage, events_q, quit, child_quit, pc, alive, origin,
                   last, threads>>

\* BaseBlackBox.stop(), called on the object in the supervisor's process
Stop ==
    /\ alive
    /\ Running
    /\ ~quit
    /\ quit' = TRUE
    /\ UNCHANGED <<public_key, storage, events_q, control_q, child_quit, pc, alive, origin,
                   last, hist, threads>>

\* Process.start(): run() begins in a new process with a copy of the object
Start ==
    /\ alive
    /\ pc = "idle"
    /\ pc' = "top"
    /\ child_quit' = quit
    /\ UNCHANGED <<public_key, storage, events_q, control_q, quit, alive, origin, last,
                   hist, threads>>

\* a loop that tests the flag only after the cycle's work
LoopExitAfterCycle ==
    /\ pc = "top"
    /\ child_quit
    /\ pc' = "drain"
    /\ UNCHANGED <<public_key, storage, events_q, control_q, quit, child_quit, alive,
                   origin, last, hist, threads>>

\* run(): `while self._quit is False` finds the flag raised
LoopExit ==
    /\ pc = "top"
    /\ child_quit
    /\ pc' = "terminated"
    /\ UNCHANGED <<public_key, storage, events_q, control_q, quit, child_quit, alive,
                   origin, last, hist, threads>>

\* run(): the flag is down; sleep(_recalc_interval_sec), then _check_events_q();
\* where the cycles are watched, the event channel at this moment is kept
LoopSleep ==
    /\ pc = "top"
    /\ ~child_quit
    /\ pc' = "drain"
    /\ hist' = IF hist.watch
               THEN [hist EXCEPT !.since = IF @ = "enqueued" THEN "cycle1" ELSE @,
                                 !.cycled = TRUE, !.atdrain = events_q,
                                 !.handled = <<>>]
               ELSE [hist EXCEPT !.since = IF @ = "enqueued" THEN "cycle1" ELSE @]
    /\ UNCHANGED <<public_key, storage, events_q, control_q, quit, child_quit, alive,
                   origin, last, threads>>

\* _check_events_q: get_nowait() returns an item, which is handled (and, where
\* the cycles are watched, noted as handled in this cycle)
DrainItem(now) ==
    /\ pc = "drain"
    /\ events_q # <<>>
    /\ LET event == Head(events_q)
           r == HandleEvent(public_key, storage, event, now)
       IN  /\ events_q' = Tail(events_q)
           /\ storage' = r.file
           /\ origin' = Grown(r.file, "actor", event)
           /\ last' = Record("_check_events_q", event, r)
           /\ pc' = IF r.exc # "none" THEN "crashed" ELSE "drain"
           /\ hist' = IF hist.watch THEN [hist EXCEPT !.handled = Append(@, event)]
                      ELSE hist
    /\ UNCHANGED <<public_key, control_q, quit, child_quit, alive, threads>>

\* a drain that goes on to the control poll with items still waiting
DrainGivesUp ==
    /\ pc = "drain"
    /\ pc' = "control"
    /\ UNCHANGED <<public_key, storage, events_q, control_q, quit, child_quit, alive, origin,
                   last, hist, threads>>

\* _check_events_q: get_nowait() raises Empty; run() goes on to _check_control_q()
DrainEmpty ==
    /\ pc = "drain"
    /\ events_q = <<>>
    /\ pc' = "control"
    /\ UNCHANGED <<public_key, storage, events_q, control_q, quit, child_quit, alive,
                   origin, last, hist, threads>>

\* _check_control_q: get_nowait() returns a request
ControlItem ==
    /\ pc = "control"
    /\ control_q # <<>>
    /\ LET request == Head(control_q)
       IN  /\ control_q' = Tail(control_q)
           /\ child_quit' = IF StopRequested(request) THEN TRUE ELSE child_quit
    /\ pc' = "top"
    /\ hist' = [hist EXCEPT !.since = IF @ = "cycle1" THEN "over" ELSE @]
    /\ UNCHANGED <<public_key, storage, events_q, quit, alive, origin, last, threads>>

\* _check_control_q: get_nowait() raises Empty
ControlEmpty ==
    /\ pc = "control"
    /\ control_q = <<>>
    /\ pc' = "top"
    /\ hist' = [hist EXCEPT !.since = IF @ = "cycle1" THEN "over" ELSE @]
    /\ UNCHANGED <<public_key, storage, events_q, control_q, quit, child_quit, alive,
                   origin, last, threads>>

\* BlackBox._log_event(event), called in-process on an instance not started
CallLogEvent(event) ==
    /\ alive
    /\ pc = "idle"
    /\ Len(hist.calls) < MaxCalls
    /\ LET r == log_event(public_key, storage, event)
       IN  /\ storage' = r.file
           /\ origin' = Grown(r.file, "call", event)
           /\ last' = Record("_log_event", event, r)
           /\ hist' = [hist EXCEPT !.calls = Append(@, Record("_log_event", event, r))]
    /\ UNCHANGED <<public_key, events_q, control_q, quit, child_quit, pc, alive, threads>>

\* BlackBox._log_message_impl(message), called in-process at time `now` on an
\* instance not started
CallLogMessage(message, now) ==
    /\ alive
    /\ pc = "idle"
    /\ Len(hist.calls) < MaxCalls
    /\ LET r == log_message_impl(public_key, storage, message, now)
       IN  /\ storage' = r.file
           /\ origin' = Grown(r.file, "call", message)
           /\ last' = Record("_log_message_impl", message, r)
           /\ hist' = [hist EXCEPT !.calls = Append(@, Record("_log_message_impl", message, r))]
    /\ UNCHANGED <<public_key, events_q, control_q, quit, child_quit, pc, alive, threads>>

\* the calls of _log_message_impl begun so far: those that are over and those
\* a thread is inside
Begun == Len(hist.calls) + Cardinality({t \in 1..MaxThreads : threads[t].at # "outside"})

\* thread t calls _log_message_impl(message) at time `now`: the key test, the
\* split, json.dumps, and open(storage_path, 'a'); with no key the call raises
ThreadOpen(t, message, now) ==
    /\ alive
    /\ pc = "idle"
    /\ threads[t].at = "outside"
    /\ Begun < MaxCalls
    /\ IF KeyNotSet(public_key)
       THEN LET r == log_message_impl(public_key, storage, message, now)
            IN  /\ last' = Record("_log_message_impl", message, r)
                /\ hist' = [hist EXCEPT
                               !.calls = Append(@, Record("_log_message_impl", message, r))]
                /\ UNCHANGED threads
       ELSE /\ threads' = [threads EXCEPT ![t] =
                              [at |-> "opened", message |-> message,
                               log_entry |-> LogEntry(message, now),
                               offset |-> Len(storage)]]
            /\ UNCHANGED <<last, hist>>
    /\ UNCHANGED <<public_key, storage, events_q, control_q, quit, child_quit, pc, alive,
                   origin>>

\* thread t, inside _log_message_impl: f.write(f"{log_entry}\n") and the end of the
\* `with` block, which flushes the text in one write; the call returns True
ThreadAppend(t) ==
    /\ threads[t].at = "opened"
    /\ LET file == AppendWrite(storage, threads[t].offset, threads[t].log_entry)
           r == [exc |-> "none", ret |-> "True"]
           rec == Record("_log_message_impl", threads[t].message, r)
       IN  /\ storage' = file
           /\ origin' = Grown(file, "call", threads[t].message)
           /\ last' = rec
           /\ hist' = [hist EXCEPT !.calls = Append(@, rec)]
    /\ threads' = [threads EXCEPT ![t].at = "outside"]
    /\ UNCHANGED <<public_key, events_q, control_q, quit, child_quit, pc, alive>>

\* the history of a call of a function of crypto.py
CryptoRecord(op, arg, r) ==
    [op |-> op, arg |-> arg, exc |-> r.exc, ret |-> r.val, before |-> storage]

\* the event a producer holds: the signed event, or the event changed afterwards
InHand ==
    IF last.op = "create_signature" /\ last.exc = "none"
    THEN WithField(last.arg, "signature", last.ret)
    ELSE last.arg

\* serialize(obj), called on its own
CallSerialize(obj) ==
    /\ pc = "idle"
    /\ hist.calls = <<>>
    /\ LET rec == CryptoRecord("serialize", obj, serialize(obj))
       IN  last' = rec /\ hist' = [hist EXCEPT !.calls = <<rec>>]
    /\ UNCHANGED <<public_key, storage, events_q, control_q, quit, child_quit, pc, alive,
                   origin, threads>>

\* a producer: event = Event(...); event.signature = create_signature(event, priv)
SignEvent(event, priv) ==
    /\ pc = "idle"
    /\ hist.calls = <<>>
    /\ LET rec == CryptoRecord("create_signature", event, create_signature(event, priv))
       IN  last' = rec /\ hist' = [hist EXCEPT !.calls = <<rec>>]
    /\ UNCHANGED <<public_key, storage, events_q, control_q, quit, child_quit, pc, alive,
                   origin, threads>>

\* an attribute of the signed event is assigned another value
Tamper(name, val) ==
    /\ last.op = "create_signature" /\ last.exc = "none"
    /\ LET rec == CryptoRecord("tamper", WithField(InHand, name, val), Ret(val))
       IN  last' = rec /\ hist' = [hist EXCEPT !.calls = Append(@, rec)]
    /\ UNCHANGED <<public_key, storage, events_q, control_q, quit, child_quit, pc, alive,
                   origin, threads>>

\* verify_event_signature(event, public_key) on the event in hand, with the key
\* the recorder is configured with
CallVerifyEventSignature ==
    /\ last.op \in {"create_signature", "tamper"} /\ last.exc = "none"
    /\ LET rec == CryptoRecord("verify_event_signature", InHand,
                               verify_event_signature(InHand, public_key))
       IN  last' = rec /\ hist' = [hist EXCEPT !.calls = Append(@, rec)]
    /\ UNCHANGED <<public_key, storage, events_q, control_q, quit, child_quit, pc, alive,
                   origin, threads>>

-----------------------------------------------------------------------------
(* Specifications *)

\* readings of gmtime(), in seconds after the epoch
Clock == {0, 75}

NoOp == [op |-> "none", arg |-> PyNone, exc |-> "none", ret |-> "none",
         before |-> <<>>]

\* a BlackBox has just been constructed with one of the keys
Init ==
    /\ public_key \in {"pub1", "None"}
    /\ storage = <<>>
    /\ events_q = <<>>
    /\ control_q = <<>>
    /\ quit = FALSE
    /\ child_quit = FALSE
    /\ pc = "idle"
    /\ alive = TRUE
    /\ origin = <<>>
    /\ last = NoOp
    /\ hist = [enq |-> 0, ctl |-> 0, calls |-> <<>>, new |-> 1,
               since |-> "none", atstop |-> <<>>,
               watch |-> FALSE, cycled |-> FALSE, atdrain |-> <<>>, handled |-> <<>>]
    /\ threads = NoThreads

Next ==
    \/ \E item \in QueueItems : Put(item)
    \/ \E item \in ControlItems : PutControl(item)
    \/ Stop
    \/ Start
    \/ LoopExit
    \/ LoopSleep
    \/ \E now \in Clock : DrainItem(now)
    \/ DrainEmpty
    \/ ControlItem
    \/ ControlEmpty

Spec == Init /\ [][Next]_vars

\* what producers put on the event channel of an actor that is being stopped
StopQueueItems == { PyStr(<<"n">>), ValidLogMessage, ValidLogEvent }

\* the recorder, its producers and a supervisor that asks it to stop
NextStop ==
    \/ \E item \in StopQueueItems : Put(item)
    \/ \E item \in ControlItems : PutControl(item)
    \/ RequestStop
    \/ Start
    \/ LoopExit
    \/ LoopSleep
    \/ \E now \in Clock : DrainItem(now)
    \/ DrainEmpty
    \/ ControlItem
    \/ ControlEmpty

StopSpec == Init /\ [][NextStop]_vars

\* the functions of crypto.py: producers that sign events, changes made to signed
\* events, verification under the recorder's key, and serialize on its own
NextCrypto ==
    \/ \E obj \in SerializeArgs : CallSerialize(obj)
    \/ \E event \in UnsignedEvents, priv \in PrivateKeys : SignEvent(event, priv)
    \/ \E name \in FiveFields \cup {"signature"} :
          \E val \in TamperValues(name) : Tamper(name, val)
    \/ CallVerifyEventSignature

CryptoSpec == Init /\ [][NextCrypto]_vars

\* the store alone: a path with or without an old file, instances constructed on
\* it, and in-process calls of the two append operations
InitStore ==
    /\ public_key = "None"
    /\ storage \in OldFiles
    /\ events_q = <<>>
    /\ control_q = <<>>
    /\ quit = FALSE
    /\ child_quit = FALSE
    /\ pc = "idle"
    /\ alive = FALSE
    /\ origin = [i \in 1..Len(storage) |-> [by |-> "old", arg |-> PyNone]]
    /\ last = NoOp
    /\ hist = [enq |-> 0, ctl |-> 0, calls |-> <<>>, new |-> 0,
               since |-> "none", atstop |-> <<>>,
               watch |-> FALSE, cycled |-> FALSE, atdrain |-> <<>>, handled |-> <<>>]
    /\ threads = NoThreads

NextStore ==
    \/ \E key \in Keys : Construct(key)
    \/ \E event \in EventArgs : CallLogEvent(event)
    \/ \E message \in MessageArgs, now \in Clock : CallLogMessage(message, now)

StoreSpec == InitStore /\ [][NextStore]_vars

\* what the never-ending producers put on the event channel: items the actor
\* drops, so that the file stays as it is however long they go on
LiveQueueItems == { PyStr(<<"n">>), UnsignedEvent("ping", ParamsId7, NoSignature) }

\* a step of the started process: run() and what it calls
ActorStep ==
    \/ LoopExit
    \/ LoopSleep
    \/ \E now \in Clock : DrainItem(now)
    \/ DrainEmpty
    \/ ControlItem
    \/ ControlEmpty

\* the recorder with producers that never stop and a supervisor that stops it,
\* by stop() before start() or by a request on the control channel
NextLive ==
    \/ \E item \in LiveQueueItems : Produce(item)
    \/ RequestStop
    \/ Stop
    \/ Start
    \/ ActorStep

\* the started process is scheduled again and again (sleep returns, get_nowait
\* does not block); producers and the supervisor act when they please
LiveSpec == Init /\ [][NextLive]_vars /\ WF_vars(ActorStep)

\* a BlackBox has just been constructed; its poll cycles are watched
InitCycle ==
    /\ public_key \in {"pub1", "None"}
    /\ storage = <<>>
    /\ events_q = <<>>
    /\ control_q = <<>>
    /\ quit = FALSE
    /\ child_quit = FALSE
    /\ pc = "idle"
    /\ alive = TRUE
    /\ origin = <<>>
    /\ last = NoOp
    /\ hist = [enq |-> 0, ctl |-> 0, calls |-> <<>>, new |-> 1,
               since |-> "none", atstop |-> <<>>,
               watch |-> TRUE, cycled |-> FALSE, atdrain |-> <<>>, handled |-> <<>>]
    /\ threads = NoThreads

\* the recorder, its producers and a supervisor that stops it by stop() or by an
\* item on the control channel
NextCycle ==
    \/ \E item \in StopQueueItems : Put(item)
    \/ \E item \in ControlItems : PutControl(item)
    \/ Stop
    \/ Start
    \/ ActorStep

CycleSpec == InitCycle /\ [][NextCycle]_vars

\* what the threads log
ThreadMessages == { MsgSpace, MsgTwoSpaces, MsgNoSpace }

\* one instance, not started, whose _log_message_impl is called by several threads
\* at once
NextThreads ==
    \/ \E t \in 1..MaxThreads, message \in ThreadMessages, now \in Clock :
          ThreadOpen(t, message, now)
    \/ \E t \in 1..MaxThreads : ThreadAppend(t)

ThreadSpec == Init /\ [][NextThreads]_vars

-----------------------------------------------------------------------------
(* Properties *)

IsPrefix(a, b) == Len(a) <= Len(b) /\ SubSeq(b, 1, Len(a)) = a

\* the last operation was the actor handling a dequeued item
Dequeued == last.op = "_check_events_q"

HasSignature(item) == Attr(item, "signature") \notin {PyNone, PyStr(<<>>)}

\* verify_event_signature returned True
Verified(item, key) ==
    LET r == verify_event_signature(item, key) IN ~Raised(r) /\ r.val

\* conditions (a)-(d) for an item of the event channel
Acceptable(item, key) ==
    /\ item.t = "Event"
    /\ HasSignature(item)
    /\ Verified(item, key)
    /\ Attr(item, "operation") \in {PyStr(<<"log_event">>), PyStr(<<"log_message">>)}

\* the file is what it was before the last operation plus exactly one line
OneLineAdded == Len(storage) = Len(last.before) + 1 /\ IsPrefix(last.before, storage)

\* C1: every line the actor appended comes from a dequeued item that is an Event,
\* has a non-empty signature, passed verify_event_signature under the configured
\* key and has operation 'log_event' or 'log_message'; an item that fails one of
\* these adds no line.
C1_OnlyAcceptedItemsAreLogged ==
    /\ \A i \in 1..Len(storage) :
          origin[i].by = "actor" => Acceptable(origin[i].arg, public_key)
    /\ (Dequeued /\ ~Acceptable(last.arg, public_key)) => storage = last.before

\* C1 witness: the actor has appended a line, and has then consumed an item that
\* fails (a)-(d)
C1_Witness ==
    /\ \E i \in 1..Len(storage) : origin[i].by = "actor"
    /\ Dequeued /\ ~Acceptable(last.arg, public_key)

\* C2: an event with an empty or absent signature, or one whose signature fails
\* verification, adds no line when the actor dequeues it and does not stop the
\* actor loop.
C2_BadSignatureDoesNotStopLoop ==
    (/\ public_key = "pub1"
     /\ Dequeued /\ last.arg.t = "Event"
     /\ (~HasSignature(last.arg) \/ ~Verified(last.arg, public_key)))
    => (storage = last.before /\ pc # "crashed")

\* C3: with a valid public key, verify_event_signature as the actor calls it
\* yields a boolean for every signature text and never raises.
C3_VerifyNeverRaises ==
    (/\ public_key = "pub1"
     /\ Dequeued /\ last.arg.t = "Event" /\ HasSignature(last.arg))
    => ~Raised(verify_event_signature(last.arg, public_key))

ContainsToken(line, tok) ==
    \E i \in 1..Len(line.members) :
        \E j \in 1..Len(line.members[i][2]) : line.members[i][2][j] = tok

\* C4: a 'log_event' event signed with the key matching the actor's public key is
\* drained, verified and appended as exactly one record holding the payload and
\* a validity marker, and the actor keeps running.
C4_SignedEventIsRecorded ==
    (public_key = "pub1" /\ Dequeued /\ last.arg = ValidLogEvent)
    => /\ OneLineAdded
       /\ ContainsToken(storage[Len(storage)], "id")
       /\ ContainsToken(storage[Len(storage)], "7")
       /\ ContainsToken(storage[Len(storage)], "valid")
       /\ pc # "crashed"

\* C5: _log_event on a store whose public key is set appends exactly one line and
\* returns True, for every event.
C5_LogEventAppendsOneLine ==
    (last.op = "_log_event" /\ public_key = "pub1")
    => (last.ret = "True" /\ OneLineAdded)

\* C6: after construction every operation leaves the lines already in the file
\* unchanged, as a prefix of the file.
C6_AppendOnly == [][IsPrefix(storage, storage')]_vars

\* C6 witness: a second, different line was appended after a first
C6_Witness == Len(storage) >= 2 /\ storage[1] # storage[2]

\* a call whose argument can be recorded: a str message, or an event whose
\* serialization does not fail
WellFormed(call) ==
    IF call.op = "_log_message_impl" THEN call.arg.t = "str"
    ELSE ~Raised(serialize(call.arg))

\* C7: N well-formed records appended to a fresh store give a file of exactly N
\* lines, line i being the record of the i-th call.
C7_NCallsNLines ==
    (/\ alive /\ public_key = "pub1"
     /\ \A i \in 1..Len(hist.calls) : WellFormed(hist.calls[i]))
    => /\ Len(storage) = Len(hist.calls)
       /\ \A i \in 1..Len(storage) : origin[i].arg = hist.calls[i].arg

\* C8: immediately after a BlackBox is constructed on a path the file is empty,
\* whatever it held before.
C8_ConstructTruncates == last.op = "__init__" => storage = <<>>

\* C8 witness: a second instance was constructed on a path whose file held a
\* record written by the first
C8_Witness ==
    /\ last.op = "__init__" /\ hist.new = 2
    /\ last.before # <<>> /\ last.before[1].kind = "json"

\* C9: with no public key configured, _log_event and _log_message_impl raise
\* 'Public key is not set' and leave the file as it was.
C9_NoKeyRaises ==
    (last.op \in {"_log_event", "_log_message_impl"} /\ public_key \in {"None", ""})
    => (last.exc = "ValueError: Public key is not set" /\ storage = last.before)

\* C9 witness: both operations were called on an instance without a key
C9_Witness ==
    /\ public_key = "None"
    /\ Len(hist.calls) = 2
    /\ hist.calls[1].op = "_log_event" /\ hist.calls[2].op = "_log_message_impl"

\* index of the first character of s that is in seps, or Len(s) + 1
FirstIn(s, seps) ==
    IF \E i \in 1..Len(s) : s[i] \in seps
    THEN CHOOSE i \in 1..Len(s) : s[i] \in seps /\ \A j \in 1..(i - 1) : s[j] \notin seps
    ELSE Len(s) + 1

EndsInUTC(text) ==
    Len(text) >= 3 /\ SubSeq(text, Len(text) - 2, Len(text)) = <<"U", "T", "C">>

\* the last call of _log_message_impl returned True and appended one record with
\* the fields time, message, signature in this order, the input being cut at its
\* first character in seps
MessageRecordCutAt(seps) ==
    /\ last.ret = "True"
    /\ OneLineAdded
    /\ LET m == storage[Len(storage)].members
           cut == FirstIn(last.arg.s, seps)
       IN  /\ Len(m) = 3
           /\ m[1][1] = "time" /\ EndsInUTC(m[1][2])
           /\ m[2][1] = "message"
           /\ m[2][2] = SubSeq(last.arg.s, cut + 1, Len(last.arg.s))
           /\ m[3][1] = "signature"
           /\ m[3][2] = SubSeq(last.arg.s, 1, cut - 1)

MessageLogged ==
    last.op = "_log_message_impl" /\ public_key = "pub1" /\ last.arg.t = "str"

Whitespace == {" ", TAB, "\n", "\r"}

\* C10 as claimed: the input is split at its first whitespace character.
C10_SplitOnFirstWhitespace == MessageLogged => MessageRecordCutAt(Whitespace)

\* C10 as amended: the input is split at its first space character (' '); the
\* record has the fields time, message, signature in this order, time ends in
\* 'UTC', and the call returns True.
C10_SplitOnFirstSpace == MessageLogged => MessageRecordCutAt({" "})

\* C10 witness: a message whose first whitespace is a tab, with a space after it
C10_Witness == MessageLogged /\ last.arg = MsgTabSpace

\* the actor appended a record that stems from `item`
Recorded(item) ==
    \E j \in 1..Len(storage) : origin[j].by = "actor" /\ origin[j].arg = item

\* C11: once ControlEvent('stop') is on the control channel of a running actor,
\* the loop exits no later than the end of the first poll cycle that starts after
\* the enqueue: when that cycle is over, the stop flag is up or the loop has been
\* left, whatever else the two channels held.
C11_StopWithinOneCycle ==
    hist.since = "over" => (child_quit \/ pc = "terminated")

\* C12: when the actor is TERMINATED after a stop request, every validly signed
\* log_event/log_message event that was on the event channel when the request was
\* enqueued has its record in the file.
C12_StopKeepsPendingWork ==
    (pc = "terminated" /\ hist.since # "none")
    => \A i \in 1..Len(hist.atstop) :
           Acceptable(hist.atstop[i], public_key) => Recorded(hist.atstop[i])

\* a ControlEvent whose operation is 'stop'
IsStopMessage(item) ==
    item.t = "ControlEvent" /\ Attr(item, "operation") = PyStr(<<"stop">>)

\* C13: a call of _check_control_q takes at most one item off the control channel,
\* the head, and raises the stop flag if and only if that item is a ControlEvent
\* with operation 'stop'; any other item is taken and the flag is left as it was,
\* and with an empty channel nothing changes.
C13_ControlPollTakesOneItem ==
    [][(pc = "control" /\ pc' # "control")
       => IF control_q = <<>>
          THEN control_q' = <<>> /\ child_quit' = child_quit
          ELSE /\ control_q' = Tail(control_q)
               /\ child_quit' = (child_quit \/ IsStopMessage(Head(control_q)))]_vars

\* C13 witness: a poll took an item that is no stop request and left the flag down,
\* with the stop request behind it still on the channel
C13_Witness ==
    /\ hist.since = "over" /\ pc = "top" /\ ~child_quit
    /\ control_q # <<>> /\ IsStopMessage(Head(control_q))

\* C14: an item put on the event channel is dequeued at most once and gives at most
\* one line, and the lines of the actor are exactly the accepted events in the
\* order of the channel: every dequeued item that passes (a)-(d) adds one line, its
\* own, at the end of the file, every other dequeued item adds none, and lines and
\* waiting items together never outnumber the puts.
C14_LinesAreAcceptedEventsInOrder ==
    /\ Cardinality({j \in 1..Len(storage) : origin[j].by = "actor"}) + Len(events_q)
          <= hist.enq
    /\ Dequeued =>
          IF Acceptable(last.arg, public_key)
          THEN OneLineAdded /\ origin[Len(storage)] = [by |-> "actor", arg |-> last.arg]
          ELSE storage = last.before

\* IDLE, RUNNING, STOPPING, TERMINATED as 0..3 (a loop left by an exception is over)
Phase(p, flag) ==
    CASE p = "idle" -> 0
      [] p \in {"terminated", "crashed"} -> 3
      [] flag -> 2
      [] OTHER -> 1

\* nothing is taken off either channel and nothing is written
NothingConsumed ==
    /\ storage' = storage
    /\ IsPrefix(events_q, events_q')
    /\ IsPrefix(control_q, control_q')

\* C15: the actor's lifecycle only moves forward; a raised stop flag is never
\* lowered; the loop is left only from its top; once the loop is at its top with
\* the flag up, the actor takes nothing more off either channel and writes nothing.
C15_LifecycleMovesForward ==
    [][/\ Phase(pc', child_quit') >= Phase(pc, child_quit)
       /\ (quit => quit') /\ (child_quit => child_quit')
       /\ (pc' = "terminated" /\ pc # "terminated") => (pc = "top" /\ child_quit)
       /\ (pc = "top" /\ child_quit) => (pc' \in {"top", "terminated"} /\ NothingConsumed)
       /\ (pc = "terminated") => (pc' = "terminated" /\ NothingConsumed)]_vars

\* C15 witness: the loop was left on a raised flag, after the actor had written a
\* record, with an event still waiting on the event channel
C15_Witness ==
    pc = "terminated" /\ child_quit /\ events_q # <<>> /\ storage # <<>>

\* C20: with no public key configured, a signed event that the actor dequeues adds
\* no record and does not end the actor loop.
C20_NoKeyHaltsOnlyTheEvent ==
    (/\ public_key = "None"
     /\ Dequeued /\ last.arg.t = "Event" /\ HasSignature(last.arg))
    => (storage = last.before /\ pc # "crashed")

\* the objects that are the same Python value as v and differ from it only in the
\* insertion order of mappings or the iteration order of sets, at any depth
RECURSIVE Reorderings(_)
Reorderings(v) ==
    IF v.c = <<>> THEN {v}
    ELSE LET n == Len(v.c)
             kids == [i \in 1..n |->
                        {Item(v.c[i].k, w) : w \in Reorderings(Value(v.c[i]))}]
             choices == {f \in [1..n -> UNION {kids[i] : i \in 1..n}] :
                            \A i \in 1..n : f[i] \in kids[i]}
             orders == IF v.t \in {"dict", "set", "frozenset"}
                       THEN Permutations(1..n)
                       ELSE {[i \in 1..n |-> i]}
         IN  {[v EXCEPT !.c = [i \in 1..n |-> f[p[i]]]] : f \in choices, p \in orders}

\* a == b in Python
SameValue(a, b) == b \in Reorderings(a)

\* the attributes in which event e differs from event e0
ChangedFields(e0, e) ==
    {name \in FiveFields \cup {"signature"} : ~SameValue(Attr(e0, name), Attr(e, name))}

\* the private key that made a signature text
SignerOf(signature) == signature.s[2]

\* the last call verified, under a valid key, an event that a producer had signed
\* with the matching private key
VerifiedAfterSigning ==
    /\ last.op = "verify_event_signature"
    /\ public_key = "pub1"
    /\ hist.calls[1].op = "create_signature"
    /\ SignerOf(hist.calls[1].ret) = PrivateOf(public_key)

\* the event as it was signed
AsSigned == WithField(hist.calls[1].arg, "signature", hist.calls[1].ret)

\* C16: an event signed with priv in which one of source, destination, operation,
\* parameters, extra_parameters was changed to a different value afterwards is not
\* verified as True under the matching public key.
C16_TamperIsDetected ==
    (/\ VerifiedAfterSigning
     /\ ChangedFields(AsSigned, last.arg) # {}
     /\ ChangedFields(AsSigned, last.arg) \subseteq FiveFields)
    => ~(last.exc = "none" /\ last.ret = TRUE)

\* C17: serialize gives the same result for a value and for every value that
\* differs from it only in the insertion order of mappings or the iteration order
\* of sets, at any nesting depth.
C17_SerializeIgnoresOrder ==
    last.op = "serialize"
    => \A w \in Reorderings(last.arg) :
          serialize(w) = [exc |-> last.exc, val |-> last.ret]

\* C17 witness: bytes were returned for a value with at least four orderings
C17_Witness ==
    /\ last.op = "serialize" /\ last.exc = "none"
    /\ Cardinality(Reorderings(last.arg)) >= 4

\* C18: an event built with its signature unset, signed with create_signature under
\* priv and given that signature, is verified as True under the matching public
\* key, and so passes the signature checks of the actor.
C18_HonestEventVerifies ==
    (VerifiedAfterSigning /\ Len(hist.calls) = 2)
    => (last.exc = "none" /\ last.ret = TRUE /\ HasSignature(last.arg))

\* C18 witness: a signed event whose payload is a set was verified as True
C18_Witness ==
    /\ VerifiedAfterSigning /\ Len(hist.calls) = 2
    /\ Attr(last.arg, "parameters").t = "set"
    /\ last.ret = TRUE

\* what the signature attribute of an event may hold
SignatureTexts ==
    { NoSignature, EmptySignature, BadPadSignature,
      B64Signature("priv2", <<"x">>), PyInt(1) }

\* C19: the bytes that verify_event_signature checks stem from the five fields
\* only: an event that differs from the verified one in its signature attribute
\* alone gives the same bytes, and the same outcome for the same signature text
\* and key.
C19_SignatureFieldExcluded ==
    last.op = "verify_event_signature"
    => \A sig \in SignatureTexts :
          LET other == WithField(last.arg, "signature", sig)
          IN  /\ serialize(event_without_signature(other))
                    = serialize(event_without_signature(last.arg))
              /\ verify_signature(event_without_signature(other),
                                  Attr(last.arg, "signature"), public_key)
                    = [exc |-> last.exc, val |-> last.ret]

\* C19 witness: a signed event whose signature attribute alone was replaced was
\* verified, and the verification ran to its end
C19_Witness ==
    /\ last.op = "verify_event_signature" /\ Len(hist.calls) = 3
    /\ ChangedFields(AsSigned, last.arg) = {"signature"}
    /\ last.exc = "none" /\ last.ret = FALSE

\* C21: stop() called on the actor raises the stop flag at once and leaves the
\* control channel alone, and once it has been called the running loop, at its
\* next top, leaves (RUNNING -> STOPPING -> TERMINATED) instead of starting
\* another poll cycle.
C21_DirectStopEndsLoop ==
    [][/\ (quit' /\ ~quit) => control_q' = control_q
       /\ (quit /\ pc = "top") => pc' \in {"top", "terminated"}]_vars

\* C22: when several threads call _log_message_impl on one instance with a key,
\* no append is lost: the file has exactly one line for each call that has
\* returned, and the j-th line is the complete record of the j-th call to return.
C22_ConcurrentAppendsAreKept ==
    public_key = "pub1"
    => /\ Len(storage) = Len(hist.calls)
       /\ \A j \in 1..Len(hist.calls) :
             /\ hist.calls[j].exc = "none"
             /\ \E now \in Clock : storage[j] = LogEntry(hist.calls[j].arg, now)

\* C22 witness: two threads opened the empty file before either of them wrote,
\* both calls have returned, and the file has two lines
C22_Witness ==
    /\ public_key = "pub1"
    /\ \A t \in 1..2 : threads[t].at = "outside" /\ threads[t].message # PyNone
                       /\ threads[t].offset = 0
    /\ Len(storage) = 2

\* the value holds a reference back to a container that encloses it
RECURSIVE HasCycle(_)
HasCycle(v) == v.t = "backref" \/ \E i \in 1..Len(v.c) : HasCycle(v.c[i])

\* C23: create_signature on an event whose parameters hold a self-reference ends
\* with RecursionError and returns no signature: the event keeps its signature
\* unset, nothing is written, and the actor, were the event put on the event
\* channel as it is, would drop it without a record.
C23_CyclicPayloadIsRejected ==
    (last.op = "create_signature" /\ HasCycle(Attr(last.arg, "parameters")))
    => /\ last.exc = "RecursionError"
       /\ ~HasSignature(InHand)
       /\ storage = <<>>
       /\ \A now \in Clock :
             HandleEvent(public_key, storage, InHand, now)
                = [exc |-> "none", ret |-> "continue", file |-> storage]

\* C23 witness: a producer tried to sign an event whose parameters are
\* a = {}; a["self"] = a, and the call raised
C23_Witness ==
    /\ last.op = "create_signature" /\ last.exc # "none"
    /\ Attr(last.arg, "parameters") = ParamsCyclic

\* a stop request waits on the control channel of the started actor
StopEnqueued ==
    /\ pc \in {"top", "drain", "control"}
    /\ \E i \in 1..Len(control_q) : StopRequested(control_q[i])

\* C24: every poll cycle of the started actor ends, so that, the actor being
\* scheduled fairly, a raised stop flag or a stop request on the control channel
\* leads to TERMINATED, also while producers keep putting events on the event
\* channel.
C24_StopLeadsToTerminated ==
    ((pc # "idle" /\ child_quit) \/ StopEnqueued) ~> (pc = "terminated")

\* the drain of the current poll cycle is over, or the loop has been left after
\* at least one cycle
DrainOver == hist.cycled /\ pc \in {"control", "top", "terminated"}

\* the loop found the flag raised when run() started
RaisedAtStart == pc # "idle" /\ child_quit /\ ~hist.cycled

\* C25: a poll cycle is sleep, then the drain of the event channel until it is
\* empty, then one poll of the control channel. So once a cycle's drain is over,
\* and hence before that cycle can raise the stop flag, every event that was on
\* the event channel when the drain started has been handled, in order; and an
\* actor started with the flag raised terminates without taking an event off the
\* channel or writing a record.
C25_CycleOrder ==
    /\ [](/\ DrainOver => IsPrefix(hist.atdrain, hist.handled)
          /\ (child_quit /\ hist.cycled) => pc \in {"top", "terminated"}
          /\ RaisedAtStart => /\ pc \in {"top", "terminated"}
                              /\ storage = <<>> /\ last = NoOp
                              /\ Len(events_q) = hist.enq)
    /\ [][/\ (pc = "top" /\ pc' # pc)
             => pc' = (IF child_quit THEN "terminated" ELSE "drain")
          /\ (pc = "drain" /\ pc' \notin {"drain", "crashed"})
             => (pc' = "control" /\ events_q = <<>>)
          /\ (pc = "control" /\ pc' # pc)
             => (pc' = "top" /\ Len(control_q') >= Len(control_q) - 1)
          /\ (child_quit' /\ ~child_quit) => pc \in {"idle", "control"}]_vars

\* C25 witness: the cycle that raised the stop flag started its drain with two
\* events on the event channel, handled both, and the loop has been left
C25_Witness ==
    /\ pc = "terminated" /\ child_quit /\ hist.cycled
    /\ Len(hist.atdrain) = 2 /\ hist.handled = hist.atdrain

====
